---- MODULE Spec2Model ----
(***************************************************************************)
(* Room admission of the mediasoup demo server (server/server.js): the     *)
(* AwaitQueue that serializes room resolution, the rooms map, the          *)
(* round-robin mediasoup Worker cursor, the protoo 'connectionrequest'     *)
(* handler and the Express 'roomId' param handler.                         *)
(***************************************************************************)
EXTENDS Integers, Sequences, FiniteSets, TLC

\* ---------------------------------------------------------------- bounds
\* Number of inbound requests (protoo connection requests + HTTP requests).
MaxRequests == 3
\* config.mediasoup.numWorkers: length of mediasoupWorkers after startup.
NumWorkers == 2
\* Number of connection requests that lack roomId or peerId.
MaxInvalid == 1
\* Number of failures of the Room collaborator (Room.create rejecting,
\* room.handleProtooConnection throwing).
MaxFailures == 1
\* Number of Rooms that close.
MaxCloses == 1
\* Number of requests in the specification that also runs the worker
\* lifecycle, the health reports and the broadcaster route handlers.
MaxFullRequests == 1
\* Number of mediasoup Workers that die.
MaxDeaths == 1

\* ------------------------------------------------------------ input sets
\* A query parameter that is not present in the URL (undefined in JS).
Absent == "<undefined>"
RoomIds == {"A", "B"}
PeerIds == {"p1"}
\* Values u.query['roomId'] / u.query['peerId'] can take.
RoomIdQuery == RoomIds \cup {Absent, ""}
PeerIdQuery == PeerIds \cup {Absent}
\* Values u.query['consumerReplicas'] can take.
ReplicasQuery == {Absent, "1", "x"}
\* Errors a rejected promise / a throw can carry (error.name).
Errors == {"TypeError", "Error"}

NoRoom == 0
NoWorker == -1
NaN == -1

\* ------------------------------------------------------------- variables
VARIABLES
    requests,               \* every inbound request, in arrival order
    queue,                  \* AwaitQueue pending tasks (head = executing)
    rooms,                  \* Map roomId -> Room instance (NoRoom: no entry)
    roomInsts,              \* every Room instance constructed, in creation order
    nextMediasoupWorkerIdx, \* index of next mediasoup Worker to use
    assigned,               \* workers returned by getMediasoupWorker, in call order
    died,                   \* per worker of mediasoupWorkers: it has died
    exitTimers,             \* pending setTimeout(() => process.exit(1), 2000)
    exitCause               \* "none" while the process runs, else why it ended

vars == <<requests, queue, rooms, roomInsts, nextMediasoupWorkerIdx, assigned,
          died, exitTimers, exitCause>>
\* The state of the process and of its workers.
procVars == <<died, exitTimers, exitCause>>

\* --------------------------------------------------------- pure helpers
\* JS truthiness test `!v` on a query value.
Falsy(v) == v = Absent \/ v = ""

\* Number(u.query['consumerReplicas']).
ToNumber(v) ==
    CASE v = Absent -> NaN
      [] v = ""     -> 0
      [] v = "0"    -> 0
      [] v = "1"    -> 1
      [] v = "2"    -> 2
      [] OTHER      -> NaN

\* let consumerReplicas = Number(..); if (isNaN(consumerReplicas)) consumerReplicas = 0;
ParseConsumerReplicas(v) == IF ToNumber(v) = NaN THEN 0 ELSE ToNumber(v)

\* if (!roomId || !peerId) reject(400, ...)
MissingParams_And(roomId, peerId) == Falsy(roomId) /\ Falsy(peerId)
MissingParams(roomId, peerId) == Falsy(roomId) \/ Falsy(peerId)

\* getMediasoupWorker(): the worker returned ...
GetMediasoupWorker(idx) == idx

\* ... and the cursor after the call.
NextWorkerIdx_NoAdvance(idx) == idx
NextWorkerIdx_NoWrap(idx) == idx + 1
NextWorkerIdx(idx) == IF idx + 1 = NumWorkers THEN 0 ELSE idx + 1

\* rooms.get(roomId): undefined (NoRoom) for a key the Map does not hold.
RoomsGet_Miss(rms, roomId) == NoRoom
RoomsGet(rms, roomId) == IF roomId \in DOMAIN rms THEN rms[roomId] ELSE NoRoom

\* rooms.set(roomId, room)
RoomsSet_Skipped(rms, roomId, room) == rms
RoomsSet(rms, roomId, room) ==
    [k \in DOMAIN rms \cup {roomId} |-> IF k = roomId THEN room ELSE rms[k]]

\* room.on('close', () => rooms.delete(roomId))
OnRoomClose_NoDelete(rms, roomId) == rms
OnRoomClose(rms, roomId) ==
    [k \in DOMAIN rms |-> IF k = roomId THEN NoRoom ELSE rms[k]]

\* AwaitQueue.push: the task is appended to the pending tasks.
QueuePush(q, i) == Append(q, i)

\* AwaitQueue: the task the queue executes is the first pending one, and
\* only that one.
CanExecute_Unserialized(q, i) == \E k \in 1..Len(q) : q[k] = i
CanExecute_Lifo(q, i) == Len(q) > 0 /\ q[Len(q)] = i
CanExecute(q, i) == Len(q) > 0 /\ q[1] = i

\* AwaitQueue: when the executing task settles (resolved or rejected) it is
\* removed and the next pending one is executed.
QueueSettle(q, i, failed) == SelectSeq(q, LAMBDA t : t # i)

\* Arguments the Express param handler passes to getOrCreateRoom.
BroadcasterArgs_Replicas(roomId) == [roomId |-> roomId, consumerReplicas |-> 1]
BroadcasterArgs(roomId) == [roomId |-> roomId, consumerReplicas |-> 0]

\* Values of the `status` property of an error (0: the error has none).
OwnStatuses == {0, 404}
\* No error object.
NoError == [name |-> "none", status |-> 0]

\* error.status = error.status || (error.name === 'TypeError' ? 400 : 500)
ErrorStatus_IgnoreName(error) == IF error.status # 0 THEN error.status ELSE 500
ErrorStatus(error) ==
    IF error.status # 0
    THEN error.status
    ELSE IF error.name = "TypeError" THEN 400 ELSE 500

\* worker.on('died', ..): setTimeout(() => process.exit(1), 2000)
ScheduleExit_Never(timers) == timers
ScheduleExit(timers) == timers + 1

\* What the runtime does with the rejection of an async timer callback that
\* nothing catches: it only warns, or it raises it as an uncaught exception
\* and the process ends (the default of Node.js 15 and later).
UnhandledRejectionModes == {"warn", "throw"}

\* --------------------------------------------------------------- records
NewRequest(kind, roomId, peerId, consumerReplicas) ==
    [ kind             |-> kind,        \* "ws" | "http"
      roomId           |-> roomId,
      peerId           |-> peerId,
      consumerReplicas |-> consumerReplicas,
      pc               |-> "new",       \* new | queued | creating | resolved | failed | invalid
      room             |-> NoRoom,      \* Room returned by getOrCreateRoom
      worker           |-> NoWorker,    \* worker passed to Room.create
      attempt          |-> 0,           \* which getMediasoupWorker call chose it (0: none)
      unknownAtPush    |-> FALSE,       \* roomId had no rooms entry at queue.push
      accepted         |-> FALSE,       \* accept() was called
      rejected         |-> "none",      \* reject() argument: "400" or error name
      next             |-> "none",      \* Express next(): "ok" or error name
      status           |-> 0,           \* status set by the Express error handler
      error            |-> NoError,     \* error given to the Express error handler
      opCalls          |-> 0,           \* calls of the delegated Room operation
      response         |-> 0,           \* status of the HTTP response sent (0: none)
      responses        |-> 0 ]          \* number of HTTP responses sent

\* The connectionrequest handler up to queue.push.
PushedWs_AcceptFirst(req, rms) ==
    [req EXCEPT !.pc = "queued", !.accepted = TRUE,
                !.unknownAtPush = (RoomsGet(rms, req.roomId) = NoRoom)]
PushedWs(req, rms) ==
    [req EXCEPT !.pc = "queued", !.unknownAtPush = (RoomsGet(rms, req.roomId) = NoRoom)]

Live(r) == r \in 1..Len(roomInsts) /\ ~roomInsts[r].closed

\* Room.create({ mediasoupWorker, .. }) can resolve only on a worker that has
\* not died (a dead worker creates no Router).
WorkerCanCreate(d, w) == ~d[w]

\* How many requests were rejected for missing parameters, how many times the
\* Room collaborator failed, how many Rooms closed.
NumInvalid == Cardinality({i \in 1..Len(requests) : requests[i].pc = "invalid"})
NumFailures == Cardinality({i \in 1..Len(requests) : requests[i].pc = "failed"})
NumCloses == Cardinality({r \in 1..Len(roomInsts) : roomInsts[r].closed})
\* How many delegated Room operations failed, how many workers died.
NumOpFailures == Cardinality({i \in 1..Len(requests) :
                     requests[i].opCalls > 0 /\ requests[i].error # NoError})
NumDeaths == Cardinality({w \in DOMAIN died : died[w]})

\* ----------------------------------------------------------------- Init
Init ==
    /\ requests = <<>>
    /\ queue = <<>>
    /\ rooms = [id \in RoomIds |-> NoRoom]
    /\ roomInsts = <<>>
    /\ nextMediasoupWorkerIdx = 0
    /\ assigned = <<>>
    /\ died = [w \in 0..(NumWorkers - 1) |-> FALSE]
    /\ exitTimers = 0
    /\ exitCause = "none"

\* The process has not exited.
Running == exitCause = "none"

\* -------------------------------------------------------------- actions
\* protooWebSocketServer.on('connectionrequest', ...)
ConnectionRequest ==
    \E roomId \in RoomIdQuery, peerId \in PeerIdQuery, cr \in ReplicasQuery :
        /\ Running
        /\ Len(requests) < MaxRequests
        /\ UNCHANGED procVars
        /\ LET i   == Len(requests) + 1
               req == NewRequest("ws", roomId, peerId, 0)
           IN IF MissingParams(roomId, peerId)
              THEN /\ NumInvalid < MaxInvalid
                   /\ requests' = Append(requests,
                          [req EXCEPT !.pc = "invalid", !.rejected = "400"])
                   /\ UNCHANGED queue
              ELSE /\ requests' = Append(requests,
                          PushedWs([req EXCEPT
                              !.consumerReplicas = ParseConsumerReplicas(cr)], rooms))
                   /\ queue' = QueuePush(queue, i)
        /\ UNCHANGED <<rooms, roomInsts, nextMediasoupWorkerIdx, assigned>>

\* expressApp.param('roomId', ...)
ParamRoomId ==
    \E roomId \in RoomIds :
        /\ Running
        /\ Len(requests) < MaxRequests
        /\ UNCHANGED procVars
        /\ LET i    == Len(requests) + 1
               args == BroadcasterArgs(roomId)
           IN /\ requests' = Append(requests,
                     [NewRequest("http", args.roomId, Absent, args.consumerReplicas)
                         EXCEPT !.pc = "queued",
                                !.unknownAtPush = (RoomsGet(rooms, args.roomId) = NoRoom)])
              /\ queue' = QueuePush(queue, i)
        /\ UNCHANGED <<rooms, roomInsts, nextMediasoupWorkerIdx, assigned>>

\* The rest of a task once getOrCreateRoom returned `room`:
\* ws: accept(); room.handleProtooConnection(..) (which may throw `err`, and
\* then the task rejects and .catch calls reject(error)); http: next().
Resolved(req, room, throws, err) ==
    IF req.kind = "ws"
    THEN IF throws
         THEN [req EXCEPT !.room = room, !.accepted = TRUE,
                          !.pc = "failed", !.rejected = err]
         ELSE [req EXCEPT !.room = room, !.accepted = TRUE, !.pc = "resolved"]
    ELSE [req EXCEPT !.room = room, !.next = "ok", !.pc = "resolved"]

\* The .catch of a task whose getOrCreateRoom rejected with `err`:
\* ws: reject(error); http: next(error), answered by the error handler.
Rejected_Silent(req, err) == [req EXCEPT !.pc = "failed"]
Rejected(req, err) ==
    IF req.kind = "ws"
    THEN [req EXCEPT !.pc = "failed", !.rejected = err]
    ELSE LET error == [name |-> err, status |-> 0]
         IN [req EXCEPT !.pc = "failed", !.next = err, !.error = error,
                        !.status = ErrorStatus(error),
                        !.response = ErrorStatus(error),
                        !.responses = @ + 1]

\* The queue starts task i: getOrCreateRoom up to its return (room found) or
\* up to the await of Room.create (room not found).
RunTask(i) ==
    /\ Running
    /\ UNCHANGED procVars
    /\ i \in 1..Len(requests)
    /\ requests[i].pc = "queued"
    /\ CanExecute(queue, i)
    /\ LET req  == requests[i]
           room == RoomsGet(rooms, req.roomId)
       IN IF room # NoRoom
          THEN \E throws \in BOOLEAN, err \in {"Error"} :
                 /\ throws => (req.kind = "ws" /\ NumFailures < MaxFailures)
                 /\ requests' = [requests EXCEPT ![i] = Resolved(req, room, throws, err)]
                 /\ queue' = QueueSettle(queue, i, throws)
                 /\ UNCHANGED <<rooms, roomInsts, nextMediasoupWorkerIdx, assigned>>
          ELSE /\ requests' = [requests EXCEPT ![i] =
                      [req EXCEPT !.pc = "creating",
                                  !.attempt = Len(assigned) + 1,
                                  !.worker = GetMediasoupWorker(nextMediasoupWorkerIdx)]]
               /\ assigned' = Append(assigned, GetMediasoupWorker(nextMediasoupWorkerIdx))
               /\ nextMediasoupWorkerIdx' = NextWorkerIdx(nextMediasoupWorkerIdx)
               /\ UNCHANGED <<queue, rooms, roomInsts>>

\* Room.create resolves: rooms.set, room.on('close'), return room, then the
\* rest of the task.
RoomCreateResolved(i) ==
    /\ Running
    /\ UNCHANGED procVars
    /\ i \in 1..Len(requests)
    /\ requests[i].pc = "creating"
    /\ WorkerCanCreate(died, requests[i].worker)
    /\ LET req  == requests[i]
           room == Len(roomInsts) + 1
       IN /\ roomInsts' = Append(roomInsts,
                 [ roomId           |-> req.roomId,
                   mediasoupWorker  |-> req.worker,
                   consumerReplicas |-> req.consumerReplicas,
                   attempt          |-> req.attempt,
                   closed           |-> FALSE ])
          /\ rooms' = RoomsSet(rooms, req.roomId, room)
          /\ \E throws \in BOOLEAN, err \in {"Error"} :
                 /\ throws => (req.kind = "ws" /\ NumFailures < MaxFailures)
                 /\ requests' = [requests EXCEPT ![i] = Resolved(req, room, throws, err)]
                 /\ queue' = QueueSettle(queue, i, throws)
    /\ UNCHANGED <<nextMediasoupWorkerIdx, assigned>>

\* Room.create rejects with `err`.
RoomCreateRejected(i) ==
    /\ Running
    /\ UNCHANGED procVars
    /\ i \in 1..Len(requests)
    /\ requests[i].pc = "creating"
    /\ NumFailures < MaxFailures
    /\ \E err \in Errors :
           requests' = [requests EXCEPT ![i] = Rejected(requests[i], err)]
    /\ queue' = QueueSettle(queue, i, TRUE)
    /\ UNCHANGED <<rooms, roomInsts, nextMediasoupWorkerIdx, assigned>>

\* A Room emits 'close' (once): the observer registered by getOrCreateRoom runs.
RoomClose(r) ==
    /\ Running
    /\ UNCHANGED procVars
    /\ Live(r)
    /\ NumCloses < MaxCloses
    /\ roomInsts' = [roomInsts EXCEPT ![r].closed = TRUE]
    /\ rooms' = OnRoomClose(rooms, roomInsts[r].roomId)
    /\ UNCHANGED <<requests, queue, nextMediasoupWorkerIdx, assigned>>

\* A broadcaster route handler (GET /rooms/:roomId, POST .../broadcasters,
\* DELETE .../broadcasters/:id, POST .../transports, POST .../producers) runs
\* on the resolved req.room: the delegated Room operation is called once; it
\* returns and the handler answers 200, or it fails with `error` and the
\* Express error handler answers.
RouteHandler(i) ==
    /\ Running
    /\ i \in 1..Len(requests)
    /\ requests[i].kind = "http"
    /\ requests[i].pc = "resolved"
    /\ requests[i].opCalls = 0
    /\ \E fails \in BOOLEAN, name \in Errors, status \in OwnStatuses :
           LET error == [name |-> name, status |-> status]
           IN /\ ~fails => (name = "Error" /\ status = 0)
              /\ fails => NumOpFailures < MaxFailures
              /\ requests' = [requests EXCEPT ![i] =
                     IF fails
                     THEN [@ EXCEPT !.opCalls = @ + 1, !.error = error,
                                    !.status = ErrorStatus(error),
                                    !.response = ErrorStatus(error),
                                    !.responses = @ + 1]
                     ELSE [@ EXCEPT !.opCalls = @ + 1, !.response = 200,
                                    !.responses = @ + 1]]
    /\ UNCHANGED <<queue, rooms, roomInsts, nextMediasoupWorkerIdx, assigned>>
    /\ UNCHANGED procVars

\* worker.on('died', ...): the worker is dead; the handler logs and arms the
\* exit timer. mediasoupWorkers is not touched.
WorkerDied(w) ==
    /\ Running
    /\ w \in DOMAIN died
    /\ ~died[w]
    /\ NumDeaths < MaxDeaths
    /\ died' = [died EXCEPT ![w] = TRUE]
    /\ exitTimers' = ScheduleExit(exitTimers)
    /\ UNCHANGED <<requests, queue, rooms, roomInsts, nextMediasoupWorkerIdx,
                   assigned, exitCause>>

\* The 2 s timer fires: process.exit(1).
ExitTimerFires ==
    /\ Running
    /\ exitTimers > 0
    /\ exitTimers' = exitTimers - 1
    /\ exitCause' = "died"
    /\ UNCHANGED <<requests, queue, rooms, roomInsts, nextMediasoupWorkerIdx,
                   assigned, died>>

\* The health report of worker w (setInterval(async () => ..., 120000)):
\* worker.getResourceUsage() or worker.dump() rejects. The callback has no
\* try/catch, so its promise rejects with nothing handling it.
HealthReportFails(w) ==
    /\ Running
    /\ w \in DOMAIN died
    /\ \E mode \in UnhandledRejectionModes :
           exitCause' = IF mode = "throw" THEN "unhandledRejection" ELSE exitCause
    /\ UNCHANGED <<requests, queue, rooms, roomInsts, nextMediasoupWorkerIdx,
                   assigned, died, exitTimers>>

Next ==
    \/ ConnectionRequest
    \/ ParamRoomId
    \/ \E i \in 1..MaxRequests : RunTask(i)
    \/ \E i \in 1..MaxRequests : RoomCreateResolved(i)
    \/ \E i \in 1..MaxRequests : RoomCreateRejected(i)
    \/ \E r \in 1..MaxRequests : RoomClose(r)

Spec == Init /\ [][Next]_vars

\* The admission steps together with the broadcaster route handlers, the
\* death of workers, the exit timer and the health reports.
NextFull ==
    \/ (Len(requests) < MaxFullRequests /\ ConnectionRequest)
    \/ (Len(requests) < MaxFullRequests /\ ParamRoomId)
    \/ \E i \in 1..MaxFullRequests : RunTask(i)
    \/ \E i \in 1..MaxFullRequests : RoomCreateResolved(i)
    \/ \E i \in 1..MaxFullRequests : RoomCreateRejected(i)
    \/ \E r \in 1..MaxFullRequests : RoomClose(r)
    \/ \E i \in 1..MaxFullRequests : RouteHandler(i)
    \/ \E w \in 0..(NumWorkers - 1) : WorkerDied(w)
    \/ ExitTimerFires
    \/ \E w \in 0..(NumWorkers - 1) : HealthReportFails(w)

SpecFull == Init /\ [][NextFull]_vars

\* Timers fire: the event loop runs an armed exit timer.
FairFull == SpecFull /\ WF_vars(ExitTimerFires)

\* ------------------------------------------------------ derived notions
Reqs == 1..Len(requests)
Insts == 1..Len(roomInsts)
\* Requests that pushed an admission task naming roomId X.
TasksFor(X) == {i \in Reqs : requests[i].pc # "invalid" /\ requests[i].roomId = X}
InstsOf(X) == {r \in Insts : roomInsts[r].roomId = X}
NoCloseOf(X) == \A r \in InstsOf(X) : ~roomInsts[r].closed
\* Request i's task called Room.create.
CalledCreate(i) == requests[i].attempt # 0
\* Request i's task has settled.
Settled(i) == requests[i].pc \in {"resolved", "failed"}
\* Request i's own Room.create rejected.
CreateFailed(i) == requests[i].pc = "failed" /\ requests[i].room = NoRoom

\* ------------------------------------------------------------------ C1
\* C1 as stated: for the requests naming the same roomId X that were
\* submitted while X was not in the registry, with no close of X, Room.create
\* is invoked exactly once and every one of them is handed the same Room.
C1_CreateInvokedOnce ==
    \A X \in RoomIds :
        LET N == {i \in TasksFor(X) : requests[i].unknownAtPush}
        IN NoCloseOf(X) =>
            /\ Cardinality({i \in N : CalledCreate(i)}) <= 1
            /\ \A i \in N : Settled(i) =>
                   /\ requests[i].room # NoRoom
                   /\ Cardinality({j \in N : CalledCreate(j)}) = 1
            /\ \A i, j \in N :
                   (Settled(i) /\ Settled(j)) => requests[i].room = requests[j].room

\* C1 as amended: for the requests naming the same roomId X, with no close
\* of X, at most one Room.create for X does not fail, at most one Room is
\* constructed for X, a request is handed no Room exactly when its own
\* Room.create failed, and all the others are handed the one Room instance
\* that the registry holds for X.
C1_OneRoomPerConcurrentCreate ==
    \A X \in RoomIds :
        NoCloseOf(X) =>
            /\ Cardinality(InstsOf(X)) <= 1
            /\ Cardinality({i \in TasksFor(X) :
                   CalledCreate(i) /\ ~CreateFailed(i)}) <= 1
            /\ \A i \in TasksFor(X) :
                   /\ requests[i].room # NoRoom =>
                          /\ requests[i].room = rooms[X]
                          /\ requests[i].room \in InstsOf(X)
                   /\ (Settled(i) /\ requests[i].room = NoRoom) =>
                          (CalledCreate(i) /\ CreateFailed(i))

\* Three requests for "A" from both adapters, all pushed while "A" was
\* unknown, all settled on the same Room instance, which was created once.
C1_Witness ==
    /\ Len(requests) = 3
    /\ \A i \in Reqs : /\ requests[i].roomId = "A"
                       /\ requests[i].unknownAtPush
                       /\ requests[i].pc = "resolved"
                       /\ requests[i].room = 1
    /\ \E i, j \in Reqs : requests[i].kind = "ws" /\ requests[j].kind = "http"
    /\ Len(roomInsts) = 1
    /\ ~roomInsts[1].closed

\* ------------------------------------------------------------------ C2
\* C2: in every reachable state there is at most one live (constructed, not
\* closed) Room instance per room identifier, and the registry entry of an
\* identifier, if present, is that live instance.
C2_AtMostOneLiveRoom ==
    \A X \in RoomIds :
        /\ Cardinality({r \in InstsOf(X) : ~roomInsts[r].closed}) <= 1
        /\ rooms[X] # NoRoom =>
               /\ rooms[X] \in InstsOf(X)
               /\ ~roomInsts[rooms[X]].closed

\* A room id that saw a failed construction, a closed instance and a later
\* live instance, which the registry holds.
C2_Witness ==
    /\ \E i \in Reqs : CreateFailed(i) /\ requests[i].roomId = "A"
    /\ \E r, t \in InstsOf("A") :
           /\ roomInsts[r].closed
           /\ ~roomInsts[t].closed
           /\ rooms["A"] = t

\* ------------------------------------------------------------------ C3
\* C3 as stated: the k-th Room created (from 0, in creation order) has the
\* worker k mod P, whatever constructions failed.
C3_KthRoomKthWorker ==
    \A r \in Insts : roomInsts[r].mediasoupWorker = (r - 1) % NumWorkers

\* C3 as amended: the k-th Room construction attempt (from 0, counting the
\* attempts that fail) is given the worker k mod P, a Room has the worker of
\* the attempt that constructed it, and the k-th Room created has the
\* worker k mod P as long as no earlier construction failed.
C3_KthAttemptKthWorker ==
    /\ \A k \in 1..Len(assigned) : assigned[k] = (k - 1) % NumWorkers
    /\ nextMediasoupWorkerIdx = Len(assigned) % NumWorkers
    /\ \A i \in Reqs : CalledCreate(i) =>
           /\ requests[i].attempt \in 1..Len(assigned)
           /\ requests[i].worker = assigned[requests[i].attempt]
    /\ \A r \in Insts :
           /\ roomInsts[r].attempt \in 1..Len(assigned)
           /\ roomInsts[r].mediasoupWorker = assigned[roomInsts[r].attempt]
           /\ (\A i \in Reqs : CreateFailed(i) => requests[i].attempt > roomInsts[r].attempt)
                  => roomInsts[r].mediasoupWorker = (r - 1) % NumWorkers

\* A failed construction took worker 0, and the next two Rooms were created
\* on workers 1 and 0 (the cursor wrapped).
C3_Witness ==
    /\ Len(assigned) = 3
    /\ CreateFailed(1)
    /\ Len(roomInsts) = 2
    /\ roomInsts[1].mediasoupWorker = 1 % NumWorkers
    /\ roomInsts[2].mediasoupWorker = 2 % NumWorkers

\* ------------------------------------------------------------------ C4
\* Admission tasks in progress: started by the queue and not yet settled
\* (suspended in Room.create).
InProgress == {i \in Reqs : requests[i].pc = "creating"}

\* C4: the queue never runs two tasks concurrently: at most one admission
\* task is in progress, and it is the first pending task of the queue.
C4_OneTaskAtATime ==
    /\ Cardinality(InProgress) <= 1
    /\ \A i \in InProgress : Len(queue) > 0 /\ queue[1] = i

\* Three tasks were submitted by both adapters; one is suspended in
\* Room.create and the other two wait behind it.
C4_Witness ==
    /\ Len(queue) = 3
    /\ requests[queue[1]].pc = "creating"
    /\ requests[queue[2]].pc = "queued"
    /\ requests[queue[3]].pc = "queued"
    /\ \E i, j \in Reqs : requests[i].kind = "ws" /\ requests[j].kind = "http"

\* ------------------------------------------------------------------ C5
\* Request i pushed a task / its task has begun.
Pushed(i) == requests[i].pc # "invalid"
Begun(i) == requests[i].pc \in {"creating", "resolved", "failed"}

\* C5: tasks begin in submission order (requests are numbered in arrival
\* order, and a task is pushed when its request arrives): a task has begun
\* only if every task pushed before it has settled.
C5_FifoOrder ==
    \A i, j \in Reqs :
        (Pushed(i) /\ Pushed(j) /\ i < j /\ Begun(j)) => Settled(i)

\* A signaling task failed, the broadcaster task pushed after it is then
\* suspended in Room.create, and a third task still waits.
C5_Witness ==
    /\ Len(requests) = 3
    /\ requests[1].kind = "ws" /\ requests[1].pc = "failed"
    /\ requests[2].kind = "http" /\ requests[2].pc = "creating"
    /\ requests[3].pc = "queued"
    /\ requests[3].unknownAtPush

\* ------------------------------------------------------------------ C6
\* An error was reported to request i (reject(error) / next(error)).
ErrorReported(i) ==
    \/ requests[i].rejected \in Errors
    \/ requests[i].next \in Errors
    \/ requests[i].status # 0
\* Request i's own Room.create call rejected: it chose a worker, it is no
\* longer suspended, and no Room came out of that attempt.
OwnCreateRejected(i) ==
    /\ CalledCreate(i)
    /\ requests[i].pc # "creating"
    /\ \A r \in Insts : roomInsts[r].attempt # requests[i].attempt
\* Request i's own room.handleProtooConnection threw after accept().
OwnHandOffThrew(i) ==
    requests[i].kind = "ws" /\ requests[i].accepted /\ requests[i].pc = "failed"

\* C6: an error is reported only to the request whose own task failed, a
\* task that resolved reports none, and a failed task leaves the queue: every
\* task still pending is in the queue, and the first pending task is one
\* that has not settled, so it runs next.
C6_FailureIsolated ==
    /\ \A i \in Reqs :
           /\ ErrorReported(i) => (OwnCreateRejected(i) \/ OwnHandOffThrew(i))
           /\ OwnCreateRejected(i) => (ErrorReported(i) /\ requests[i].pc = "failed")
           /\ requests[i].pc = "resolved" => ~ErrorReported(i)
           /\ requests[i].pc \in {"queued", "creating"} <=>
                  (\E k \in 1..Len(queue) : queue[k] = i)
    /\ Len(queue) > 0 => ~Settled(queue[1])
    /\ \A k \in 2..Len(queue) : requests[queue[k]].pc = "queued"

\* The first task's Room.create failed; the two tasks queued behind it (for
\* the same room) were executed and resolved on a Room, with no error.
C6_Witness ==
    /\ Len(requests) = 3
    /\ OwnCreateRejected(1)
    /\ \A j \in {2, 3} :
           /\ requests[j].roomId = requests[1].roomId
           /\ requests[j].unknownAtPush
           /\ requests[j].pc = "resolved"
           /\ requests[j].room # NoRoom
           /\ ~ErrorReported(j)
    /\ requests[2].kind # requests[3].kind

\* ------------------------------------------------------------------ C7
\* Request i is a signaling connection request without roomId or peerId.
MissingRoomOrPeer(req) ==
    req.kind = "ws" /\ (req.roomId \in {Absent, ""} \/ req.peerId \in {Absent, ""})

\* C7: a signaling connection request whose roomId or peerId is missing is
\* rejected with status 400 and never reaches Room resolution: the step that
\* handles it queues no task and leaves the registry, the Room instances and
\* the worker cursor unchanged, and the request is never accepted, never
\* pending in the queue and never given a Room or a worker.
C7_MissingParamsRejected ==
    [][ /\ (/\ Len(requests') = Len(requests) + 1
            /\ MissingRoomOrPeer(requests'[Len(requests')]))
           => /\ requests'[Len(requests')].rejected = "400"
              /\ queue' = queue
              /\ rooms' = rooms
              /\ roomInsts' = roomInsts
              /\ nextMediasoupWorkerIdx' = nextMediasoupWorkerIdx
              /\ assigned' = assigned
        /\ \A i \in 1..Len(requests') :
              MissingRoomOrPeer(requests'[i])
              => /\ requests'[i].rejected = "400"
                 /\ ~requests'[i].accepted
                 /\ requests'[i].room = NoRoom
                 /\ requests'[i].attempt = 0
                 /\ \A k \in 1..Len(queue') : queue'[k] # i
      ]_vars

\* Room "A" is in the registry, the cursor has moved and a task is suspended
\* in Room.create when a request for "A" without peerId arrives: it is
\* rejected with 400 and the suspended task is still the only one pending.
C7_Witness ==
    /\ Len(requests) = 3
    /\ rooms["A"] = 1
    /\ requests[2].pc = "creating"
    /\ queue = <<2>>
    /\ nextMediasoupWorkerIdx = 2 % NumWorkers
    /\ requests[3].kind = "ws"
    /\ requests[3].roomId = "A" /\ requests[3].peerId = Absent
    /\ requests[3].rejected = "400"

\* ------------------------------------------------------------------ C8
\* C8: a signaling connection is accepted only once its task holds the Room
\* that getOrCreateRoom returned for its roomId (never while the task is
\* queued or suspended in Room.create), and a request whose own Room.create
\* rejected is rejected with that error and never accepted.
C8_AcceptAfterResolve ==
    \A i \in Reqs :
        requests[i].kind = "ws" =>
            /\ requests[i].accepted =>
                   /\ Settled(i)
                   /\ requests[i].room \in Insts
                   /\ roomInsts[requests[i].room].roomId = requests[i].roomId
            /\ OwnCreateRejected(i) =>
                   /\ ~requests[i].accepted
                   /\ requests[i].rejected \in Errors

\* One signaling request was rejected because its Room.create failed; a
\* later one for the same room was accepted on a newly created Room, and a
\* third was accepted on that existing Room.
C8_Witness ==
    /\ Len(requests) = 3
    /\ \A i \in Reqs : requests[i].kind = "ws" /\ requests[i].roomId = "A"
    /\ OwnCreateRejected(1) /\ ~requests[1].accepted
    /\ requests[2].accepted /\ CalledCreate(2) /\ requests[2].pc = "resolved"
    /\ requests[3].accepted /\ ~CalledCreate(3) /\ requests[3].room = requests[2].room

\* ------------------------------------------------------------------ C9
\* C9: the step in which a Room's close fires removes its identifier from
\* the registry, and the identifier stays absent while all its Rooms are
\* closed; a getOrCreateRoom that then runs for that identifier calls
\* Room.create with the worker at the cursor, and the Room it constructs is
\* a new instance (not one that existed before), bound to that worker and
\* put in the registry.
C9_CloseEvictsThenFresh ==
    [][ /\ \A r \in Insts :
              (~roomInsts[r].closed /\ roomInsts'[r].closed)
              => rooms'[roomInsts[r].roomId] = NoRoom
        /\ \A X \in RoomIds :
              (\A r \in InstsOf(X) : roomInsts[r].closed) => rooms[X] = NoRoom
        /\ \A i \in Reqs :
              LET X == requests[i].roomId
              IN (/\ Pushed(i)
                  /\ InstsOf(X) # {}
                  /\ \A r \in InstsOf(X) : roomInsts[r].closed)
                 => /\ (requests[i].pc = "queued" /\ requests'[i].pc # "queued")
                       => /\ requests'[i].pc = "creating"
                          /\ requests'[i].worker = nextMediasoupWorkerIdx
                          /\ nextMediasoupWorkerIdx' =
                                 (nextMediasoupWorkerIdx + 1) % NumWorkers
                    /\ (requests[i].pc = "creating" /\ requests'[i].room # NoRoom)
                       => /\ requests'[i].room \notin Insts
                          /\ rooms'[X] = requests'[i].room
                          /\ ~roomInsts'[requests'[i].room].closed
                          /\ roomInsts'[requests'[i].room].mediasoupWorker
                                 = requests[i].worker
      ]_vars

\* Room "A" was created on worker 0 and closed; the next request for "A"
\* got a fresh Room, on worker 1 (not the worker of the closed Room), and a
\* later request joined that Room.
C9_Witness ==
    /\ Len(roomInsts) = 2
    /\ roomInsts[1].roomId = "A" /\ roomInsts[1].closed
    /\ roomInsts[2].roomId = "A" /\ ~roomInsts[2].closed
    /\ rooms["A"] = 2
    /\ roomInsts[1].mediasoupWorker # roomInsts[2].mediasoupWorker
    /\ \E i \in Reqs : requests[i].room = 2 /\ ~requests[i].unknownAtPush

\* ----------------------------------------------------------------- C10
\* Room r was constructed by request i's Room.create call.
CreatedBy(r, i) == CalledCreate(i) /\ roomInsts[r].attempt = requests[i].attempt

C11_JoinLeavesRoomUnchanged ==
    [][ /\ \A i \in Reqs :
              (/\ requests[i].pc = "queued" /\ requests'[i].pc # "queued"
               /\ rooms[requests[i].roomId] # NoRoom)
              => /\ requests'[i].room = rooms[requests[i].roomId]
                 /\ requests'[i].attempt = 0
                 /\ roomInsts' = roomInsts
                 /\ rooms' = rooms
                 /\ nextMediasoupWorkerIdx' = nextMediasoupWorkerIdx
                 /\ assigned' = assigned
        /\ \A r \in Insts :
              /\ roomInsts'[r].consumerReplicas = roomInsts[r].consumerReplicas
              /\ roomInsts'[r].mediasoupWorker = roomInsts[r].mediasoupWorker
              /\ roomInsts'[r].roomId = roomInsts[r].roomId
      ]_vars

\* A signaling request created Room "A" with consumerReplicas = 1; a
\* broadcaster request (consumerReplicas 0) and a signaling request without
\* consumerReplicas joined it: still one Room, with consumerReplicas = 1, and
\* the cursor advanced once.
C11_Witness ==
    /\ Len(requests) = 3
    /\ \A i \in Reqs : requests[i].roomId = "A" /\ requests[i].room = 1
    /\ requests[1].kind = "ws" /\ requests[1].consumerReplicas = 1
    /\ requests[2].kind = "http" /\ requests[2].consumerReplicas = 0
    /\ requests[2].pc = "resolved" /\ ~CalledCreate(2)
    /\ requests[3].kind = "ws" /\ requests[3].consumerReplicas = 0
    /\ requests[3].pc = "resolved" /\ ~CalledCreate(3)
    /\ Len(roomInsts) = 1
    /\ roomInsts[1].consumerReplicas = 1
    /\ Len(assigned) = 1

\* ----------------------------------------------------------------- C12
Workers == 0..(NumWorkers - 1)
AnyWorkerDied == \E w \in DOMAIN died : died[w]

\* C12: once a worker has died the process eventually terminates; the pool
\* keeps the same workers (none removed or added) and a dead worker never
\* becomes alive again; and every Room keeps the worker it was created with.
C12_DeathEndsProcess ==
    /\ (AnyWorkerDied ~> ~Running)
    /\ [][ /\ DOMAIN died' = DOMAIN died
           /\ DOMAIN died = Workers
           /\ \A w \in DOMAIN died : died[w] => died'[w]
           /\ \A r \in Insts :
                  roomInsts'[r].mediasoupWorker = roomInsts[r].mediasoupWorker
         ]_vars

\* The process ended through the exit timer while a Room created on the
\* worker that died is still in the registry, on that worker.
C12_Witness ==
    /\ exitCause = "died"
    /\ \E r \in Insts :
           /\ ~roomInsts[r].closed
           /\ died[roomInsts[r].mediasoupWorker]
           /\ rooms[roomInsts[r].roomId] = r

\* ----------------------------------------------------------------- C13
\* C13: a failure of the periodic worker health report is diagnostic only:
\* it never ends the process (the process ends only through the exit timer
\* armed by a worker's death).
C13_ReportFailureNotFatal ==
    exitCause # "unhandledRejection"

\* ----------------------------------------------------------------- C14
\* Broadcaster request i failed: its Room construction or its delegated Room
\* operation gave an error to the Express error handler.
HttpFailed(i) == requests[i].kind = "http" /\ requests[i].error # NoError

\* C14 as stated: every failed broadcaster request has exactly one response,
\* with status 400 when the error is a TypeError and 500 otherwise, and its
\* operation was called at most once.
C14_StatusByErrorName ==
    \A i \in Reqs :
        HttpFailed(i) =>
            /\ requests[i].responses = 1
            /\ requests[i].opCalls <= 1
            /\ requests[i].response =
                   (IF requests[i].error.name = "TypeError" THEN 400 ELSE 500)

\* C14 as amended: every failed broadcaster request has exactly one
\* response and its operation was called at most once; the status is the
\* error's own `status` when the error carries one, and otherwise 400 when
\* the error is a TypeError and 500 when it is not. A request that did not
\* fail has at most one response, with status 200.
C14_StatusByErrorShape ==
    \A i \in Reqs :
        /\ requests[i].responses <= 1
        /\ requests[i].opCalls <= 1
        /\ HttpFailed(i) =>
               /\ requests[i].responses = 1
               /\ requests[i].response = requests[i].status
               /\ requests[i].error.status # 0
                      => requests[i].response = requests[i].error.status
               /\ (requests[i].error.status = 0 /\ requests[i].error.name = "TypeError")
                      => requests[i].response = 400
               /\ (requests[i].error.status = 0 /\ requests[i].error.name # "TypeError")
                      => requests[i].response = 500
        /\ (requests[i].kind = "http" /\ ~HttpFailed(i) /\ requests[i].responses = 1)
               => requests[i].response = 200

\* The delegated operation of a broadcaster request on a resolved Room
\* failed with a TypeError that has no status: one response, status 400.
C14_Witness ==
    \E i \in Reqs :
        /\ requests[i].kind = "http"
        /\ requests[i].room # NoRoom
        /\ requests[i].opCalls = 1
        /\ requests[i].error = [name |-> "TypeError", status |-> 0]
        /\ requests[i].response = 400
        /\ requests[i].responses = 1

\* ----------------------------------------------------------------- C16
\* C16: from the moment a worker has died no new Room is admitted: no Room
\* is constructed, and no Room construction is given the dead worker.
C16_DrainingAfterDeath ==
    [][ AnyWorkerDied =>
          /\ Len(roomInsts') = Len(roomInsts)
          /\ Len(assigned') > Len(assigned) => ~died[assigned'[Len(assigned')]]
      ]_vars

\* ----------------------------------------------------------------- C15
\* In this step the task of request i, the one the queue is executing, runs.
TaskStep(i) ==
    /\ Len(queue) > 0 /\ queue[1] = i
    /\ requests[i].pc \in {"queued", "creating"}
    /\ requests'[i].pc # requests[i].pc

\* C15 as stated: every step that changes the registry or the cursor is a
\* step of the admission task the queue is executing.
C15_OnlyInsideQueue ==
    [][ (rooms' # rooms \/ nextMediasoupWorkerIdx' # nextMediasoupWorkerIdx)
          => \E i \in Reqs : TaskStep(i)
      ]_vars

\* C15 as amended: every step that advances the cursor, takes a worker or
\* adds an entry to the registry is a step of the admission task the queue
\* is executing, for that task's roomId; an entry is removed only by the close
\* of the Room it holds, which is not a step of a task.
C15_ResolutionInsideQueue ==
    [][ /\ (\/ nextMediasoupWorkerIdx' # nextMediasoupWorkerIdx
            \/ assigned' # assigned)
           => \E i \in Reqs : TaskStep(i) /\ requests'[i].pc = "creating"
        /\ \A X \in RoomIds :
              (rooms'[X] # rooms[X] /\ rooms'[X] # NoRoom)
              => \E i \in Reqs : /\ TaskStep(i)
                                 /\ requests[i].roomId = X
                                 /\ requests'[i].room = rooms'[X]
        /\ \A X \in RoomIds :
              (rooms'[X] # rooms[X] /\ rooms'[X] = NoRoom)
              => /\ ~roomInsts[rooms[X]].closed
                 /\ roomInsts'[rooms[X]].closed
                 /\ requests' = requests
                 /\ queue' = queue
      ]_vars

\* Room 1 has closed and left the registry while the queue is busy with a
\* task suspended in Room.create and another task waits behind it.
C15_Witness ==
    /\ Len(roomInsts) = 1
    /\ roomInsts[1].closed
    /\ rooms[roomInsts[1].roomId] = NoRoom
    /\ Len(queue) = 2
    /\ requests[queue[1]].pc = "creating"
    /\ requests[queue[1]].roomId # roomInsts[1].roomId

\* ----------------------------------------------------------------- C17
\* C17: nothing but the settling of Room.create ends an admission task, so
\* while a task is suspended in Room.create every task pushed after it, for
\* any roomId and from either adapter, has not started: it has no Room and
\* no worker, and its request is neither accepted nor rejected nor passed on.
C17_HungTaskStallsQueue ==
    \A i, j \in Reqs :
        (requests[i].pc = "creating" /\ i < j /\ Pushed(j))
        => /\ requests[j].pc = "queued"
           /\ requests[j].room = NoRoom
           /\ requests[j].attempt = 0
           /\ ~requests[j].accepted
           /\ requests[j].rejected = "none"
           /\ requests[j].next = "none"
           /\ requests[j].responses = 0

\* Room "A" is in the registry; a broadcaster task for "B" is suspended in
\* Room.create; the signaling request for "A" pushed after it waits, although
\* its Room exists.
C17_Witness ==
    /\ Len(requests) = 3
    /\ rooms["A"] = 1
    /\ requests[2].kind = "http" /\ requests[2].roomId = "B"
    /\ requests[2].pc = "creating"
    /\ requests[3].kind = "ws" /\ requests[3].roomId = "A"
    /\ requests[3].pc = "queued"
    /\ ~requests[3].unknownAtPush

\* ----------------------------------------------------------------- C18
\* C18: the cursor is always in [0, len); a getMediasoupWorker call returns
\* the worker at the cursor and advances the cursor by one modulo len, and
\* no other step moves the cursor.
C18_CursorInRange ==
    [][ /\ nextMediasoupWorkerIdx \in 0..(NumWorkers - 1)
        /\ nextMediasoupWorkerIdx' \in 0..(NumWorkers - 1)
        /\ Len(assigned') = Len(assigned) + 1
              => /\ assigned'[Len(assigned')] = nextMediasoupWorkerIdx
                 /\ nextMediasoupWorkerIdx' = (nextMediasoupWorkerIdx + 1) % NumWorkers
        /\ Len(assigned') # Len(assigned) + 1
              => /\ assigned' = assigned
                 /\ nextMediasoupWorkerIdx' = nextMediasoupWorkerIdx
      ]_vars

\* Every worker of the pool was handed out once, the last one last, and
\* the cursor is back at 0.
C18_Witness ==
    /\ Len(assigned) = NumWorkers
    /\ assigned[NumWorkers] = NumWorkers - 1
    /\ nextMediasoupWorkerIdx = 0

\* ----------------------------------------------------------------- C19
\* C19: every signaling connection request gets exactly one outcome: accept
\* and reject are never both invoked for the same request.
C19_AcceptXorReject ==
    \A i \in Reqs :
        requests[i].kind = "ws"
        => ~(requests[i].accepted /\ requests[i].rejected # "none")

\* ----------------------------------------------------------------- C20
\* C20: the close of a Room removes the registry entry of its own roomId,
\* which holds that very Room, and no other entry; so the close of an
\* earlier Room never evicts a later live Room of the same roomId, and every
\* live Room is the registry entry of its roomId until its own close.
C20_CloseEvictsOwnEntry ==
    [][ /\ \A r \in Insts :
              (~roomInsts[r].closed /\ roomInsts'[r].closed)
              => /\ rooms[roomInsts[r].roomId] = r
                 /\ \A X \in RoomIds \ {roomInsts[r].roomId} : rooms'[X] = rooms[X]
                 /\ \A t \in Insts \ {r} : roomInsts'[t] = roomInsts[t]
        /\ \A r \in Insts : ~roomInsts[r].closed => rooms[roomInsts[r].roomId] = r
        /\ \A r \in 1..Len(roomInsts') :
              ~roomInsts'[r].closed => rooms'[roomInsts'[r].roomId] = r
      ]_vars

\* Room "A" was closed and created again while Room "B" lives: the later
\* "A" and "B" are both in the registry.
C20_Witness ==
    /\ Len(roomInsts) = 3
    /\ \E r, t \in InstsOf("A") :
           /\ r < t
           /\ roomInsts[r].closed
           /\ ~roomInsts[t].closed
           /\ rooms["A"] = t
    /\ \E b \in InstsOf("B") : ~roomInsts[b].closed /\ rooms["B"] = b

====
